---- MODULE Spec2Model ----
(***************************************************************************)
(* A model of the PlanningCenter / YouTube userscript (src/index.js):      *)
(* the persisted settings, the OAuth token lifecycle, the client-id        *)
(* prompt, the authenticated request executor with its re-login path, the  *)
(* stream object and its upload, the injection of the GSI script, and the  *)
(* song-title scraping of the DOM service.                                 *)
(***************************************************************************)
EXTENDS Integers, Sequences, FiniteSets, TLC

(***************************************************************************)
(* Bounds of the model.                                                    *)
(***************************************************************************)
\* the clock (Date.now(), in ms) runs from 0 to MaxTime
MaxTime == 2001
\* fetches sent by one executeRequest call before the model stops following it
MaxRequests == 3
\* paragraphs inside the order-of-service container
MaxParagraphs == 2
\* AuthService.init() calls the model follows
MaxInitCalls == 4
\* script elements the model lets init() append to document.head
MaxScripts == 3

(***************************************************************************)
(* JavaScript values.  A value that may be undefined is a sequence of      *)
(* length at most one: <<>> is undefined, <<v>> is the value v.            *)
(***************************************************************************)
Undefined == <<>>

Some(v) == <<v>>

\* truthiness of a string-or-undefined value: undefined and "" are falsy
TruthyString(x) == x # Undefined /\ x[1] # ""

\* truthiness of a number-or-undefined value: undefined and 0 are falsy
TruthyNumber(x) == x # Undefined /\ x[1] # 0

(***************************************************************************)
(* SettingsStorage: the host's key-value store (GM_getValue & co).         *)
(***************************************************************************)
ACCESS_TOKEN_KEY == "ACCESS_TOKEN"

EXPIRATION_TIMESTAMP_KEY == "EXPIRY_TIME"

CLIENT_ID_KEY == "CLIENT_ID"

Keys == {ACCESS_TOKEN_KEY, EXPIRATION_TIMESTAMP_KEY, CLIENT_ID_KEY}

EmptyStorage == [k \in Keys |-> Undefined]

StorageLoad(st, key) == st[key]

StorageSave(st, key, value) == [st EXCEPT ![key] = Some(value)]

StorageDelete(st, key) == [st EXCEPT ![key] = Undefined]

(***************************************************************************)
(* AuthToken and AuthTokenValidator.  A token response is a record         *)
(* [isNull, access_token, expires_in, token_type]; each field is           *)
(* undefined or a value, and isNull says the response itself is missing.   *)
(***************************************************************************)
EXPECTED_TOKEN_TYPE == "Bearer"

\* milliseconds per second: Date.setSeconds works in seconds, getTime in ms
MS_PER_SECOND == 1000

AccessTokenValues == {Undefined, Some(""), Some("tokA"), Some("tokB")}

ExpiresInValues == {Undefined, Some(0), Some(-1), Some(-5), Some(1), Some(2)}

TokenTypeValues == {Undefined, Some(""), Some("Bearer"), Some("bearer"), Some("Basic")}

NullResponse ==
    [isNull |-> TRUE, access_token |-> Undefined, expires_in |-> Undefined,
     token_type |-> Undefined]

TokenResponses ==
    {NullResponse} \cup
    [isNull : {FALSE}, access_token : AccessTokenValues,
     expires_in : ExpiresInValues, token_type : TokenTypeValues]

IsValidAccessToken(token) == TruthyString(token) /\ Len(token[1]) > 0

IsValidExpiresInLoose(expiresIn) == TruthyNumber(expiresIn)

IsValidExpiresIn(expiresIn) == TruthyNumber(expiresIn) /\ expiresIn[1] > 0

IsValidTokenType(tokenType) ==
    TruthyString(tokenType) /\ tokenType[1] = EXPECTED_TOKEN_TYPE

\* TRUE when AuthTokenValidator.validate(data) throws
ValidateThrows(data) ==
    \/ data.isNull
    \/ ~IsValidAccessToken(data.access_token)
    \/ ~IsValidExpiresIn(data.expires_in)
    \/ ~IsValidTokenType(data.token_type)

NoAuthToken == [accessToken |-> "", expiresIn |-> 0, tokenType |-> ""]

\* AuthToken.deserialize(data): it throws, or it returns the AuthToken
Deserialize(data) ==
    IF ValidateThrows(data)
    THEN [threw |-> TRUE, token |-> NoAuthToken]
    ELSE [threw |-> FALSE,
          token |-> [accessToken |-> data.access_token[1],
                     expiresIn |-> data.expires_in[1],
                     tokenType |-> data.token_type[1]]]

\* AuthToken.calculateExpirationTimestamp() at clock value t
CalculateExpirationTimestamp(token, t) == t + token.expiresIn * MS_PER_SECOND

(***************************************************************************)
(* TokenService.                                                           *)
(***************************************************************************)
SaveAuthTokenWithoutExpiry(st, token, t) ==
    StorageSave(st, ACCESS_TOKEN_KEY, token.accessToken)

SaveAuthToken(st, token, t) ==
    StorageSave(StorageSave(st, ACCESS_TOKEN_KEY, token.accessToken),
                EXPIRATION_TIMESTAMP_KEY, CalculateExpirationTimestamp(token, t))

GetAccessToken(st) == StorageLoad(st, ACCESS_TOKEN_KEY)

HasTokenExpiredInclusive(st, t) ==
    LET expiryTime == StorageLoad(st, EXPIRATION_TIMESTAMP_KEY)
    IN  ~TruthyNumber(expiryTime) \/ t >= expiryTime[1]

HasTokenExpired(st, t) ==
    LET expiryTime == StorageLoad(st, EXPIRATION_TIMESTAMP_KEY)
    IN  ~TruthyNumber(expiryTime) \/ t > expiryTime[1]

\* the truthiness of TokenService.isUserAuthenticated() at clock value t
IsUserAuthenticated(st, t) ==
    TruthyString(GetAccessToken(st)) /\ ~HasTokenExpired(st, t)

TokenServiceResetKeepsToken(st) == StorageDelete(st, CLIENT_ID_KEY)

TokenServiceReset(st) ==
    StorageDelete(StorageDelete(st, ACCESS_TOKEN_KEY), EXPIRATION_TIMESTAMP_KEY)

(***************************************************************************)
(* ClientIdService.  The prompt's answer is <<>> when the dialog is        *)
(* cancelled (prompt returns null), <<"">> when it is left empty.          *)
(***************************************************************************)
PromptInputs == {Undefined, Some(""), Some("cid1"), Some("cid2")}

\* showClientIdPrompt(): one prompt; it throws on a falsy answer, and
\* otherwise saves and returns the answer
ShowClientIdPrompt(st, input) ==
    IF ~TruthyString(input)
    THEN [threw |-> TRUE, clientId |-> Undefined, storage |-> st, prompts |-> 1]
    ELSE [threw |-> FALSE, clientId |-> input,
          storage |-> StorageSave(st, CLIENT_ID_KEY, input[1]), prompts |-> 1]

FetchClientIdAlwaysPrompts(st, input) == ShowClientIdPrompt(st, input)

\* fetchClientId(): the stored id without a prompt, else the prompt
FetchClientId(st, input) ==
    LET clientId == StorageLoad(st, CLIENT_ID_KEY)
    IN  IF ~TruthyString(clientId)
        THEN ShowClientIdPrompt(st, input)
        ELSE [threw |-> FALSE, clientId |-> clientId, storage |-> st, prompts |-> 0]

ClientIdServiceReset(st) == StorageDelete(st, CLIENT_ID_KEY)

(***************************************************************************)
(* AuthService.login(), in its two synchronous pieces: the part up to the  *)
(* await of the popup's token, and the popup's callback.                   *)
(***************************************************************************)
\* login() up to its first await.  outcome "resolved": the user is already
\* authenticated; "rejected": createTokenClient threw; "popup": the token
\* client was created and requestAccessToken() opened the popup.
LoginSync(st, t, input) ==
    IF IsUserAuthenticated(st, t)
    THEN [outcome |-> "resolved", why |-> "already", storage |-> st]
    ELSE LET c == FetchClientId(st, input)
         IN  IF c.threw \/ ~TruthyString(c.clientId)
             THEN [outcome |-> "rejected", why |-> "noClientId", storage |-> c.storage]
             ELSE [outcome |-> "popup", why |-> "", storage |-> c.storage]

\* processTokenResponse(data) and the rest of authenticate()
LoginCallbackSavesFirst(st, t, data) ==
    LET d == Deserialize(data)
        saved == StorageSave(st, ACCESS_TOKEN_KEY,
                             IF data.access_token = Undefined THEN ""
                             ELSE data.access_token[1])
    IN  IF d.threw
        THEN [outcome |-> "rejected", why |-> "malformed", storage |-> saved]
        ELSE [outcome |-> "resolved", why |-> "saved",
              storage |-> SaveAuthToken(st, d.token, t)]

LoginCallback(st, t, data) ==
    LET d == Deserialize(data)
    IN  IF d.threw
        THEN [outcome |-> "rejected", why |-> "malformed", storage |-> st]
        ELSE [outcome |-> "resolved", why |-> "saved",
              storage |-> SaveAuthToken(st, d.token, t)]

(***************************************************************************)
(* YouTubeApiService.                                                      *)
(***************************************************************************)
HTTP_UNAUTHORIZED_CODE == 401

HTTP_FORBIDDEN_CODE == 403

RETRY_DELAY_MS == 1000

DUMMY_ENDPOINT == "/channels?part=snippet&mine=true"

CREATE_STREAM_ENDPOINT == "/liveBroadcasts?part=snippet,status"

Endpoints == {DUMMY_ENDPOINT, CREATE_STREAM_ENDPOINT}

\* the options a caller passes: dummyApiRequest passes none (no headers
\* object), uploadStream passes method, headers and body
RequestOptions ==
    {[method |-> "GET", body |-> "", headers |-> "none"],
     [method |-> "POST", body |-> "broadcast", headers |-> "callerHeaders"]}

IsUnauthorized(status) ==
    status = HTTP_UNAUTHORIZED_CODE \/ status = HTTP_FORBIDDEN_CODE

\* Response.ok
IsOk(status) == status >= 200 /\ status <= 299

\* what fetch settles with: a rejection, or a response with a status and
\* a body that res.json() can or cannot parse
FetchOutcomes ==
    {[rejected |-> TRUE, status |-> 0, json |-> FALSE],
     [rejected |-> FALSE, status |-> 200, json |-> TRUE],
     [rejected |-> FALSE, status |-> 200, json |-> FALSE],
     [rejected |-> FALSE, status |-> 401, json |-> TRUE],
     [rejected |-> FALSE, status |-> 403, json |-> TRUE],
     [rejected |-> FALSE, status |-> 404, json |-> TRUE],
     [rejected |-> FALSE, status |-> 500, json |-> FALSE]}

\* options.headers = options.headers || new Headers()
WithHeaders(options) ==
    [options EXCEPT !.headers = IF @ = "none" THEN "newHeaders" ELSE @]

\* the request fetch(url, options) puts on the wire
BuildRequest(endpoint, options, st) ==
    [endpoint |-> endpoint, method |-> options.method, body |-> options.body,
     headers |-> WithHeaders(options).headers,
     authorization |-> GetAccessToken(st)]

\* executeRequest's try/catch: a throw inside is logged and the promise
\* resolves without a value
ExecuteRequestNoCatch(outcome) ==
    IF outcome = "throw" THEN "rejected" ELSE outcome

ExecuteRequestSettle(outcome) ==
    IF outcome = "throw" THEN "undefined" ELSE outcome

\* setTimeout(resolve, ms) started at `start` may fire at clock value t
TimerFiresAtOnce(start, t) == t >= start

TimerDue(start, t) == t >= start + RETRY_DELAY_MS

\* the call handleResponse makes after the delay
RetryCall(endpoint, options) == [endpoint |-> endpoint, options |-> options]

(***************************************************************************)
(* DomService.  The page either has the order-of-service container or not; *)
(* each paragraph inside it has its text and its nearest enclosing div,    *)
(* which holds a span (the marker of a song) or does not.                  *)
(***************************************************************************)
ParagraphTexts == {"", "Amazing Grace", "Sermon"}

Paragraphs == [closestDiv : {"withSpan", "withoutSpan"}, text : ParagraphTexts]

ParagraphLists == UNION {[1..n -> Paragraphs] : n \in 0..MaxParagraphs}

Pages ==
    {[table |-> FALSE, paragraphs |-> <<>>]} \cup
    [table : {TRUE}, paragraphs : ParagraphLists]

\* getSongTitleFromParagraph(paragraph): the text, or <<>> for null
GetSongTitleFromParagraph(paragraph) ==
    IF paragraph.closestDiv = "withSpan" THEN Some(paragraph.text) ELSE Undefined

RECURSIVE CollectTitles(_)
\* the forEach of getSongTitles: the truthy titles, in document order
CollectTitles(paragraphs) ==
    IF paragraphs = <<>> THEN <<>>
    ELSE LET title == GetSongTitleFromParagraph(Head(paragraphs))
         IN  (IF TruthyString(title) THEN <<title[1]>> ELSE <<>>)
             \o CollectTitles(Tail(paragraphs))

\* getSongTitles(): undefined without the container, else the titles
GetSongTitles(p) ==
    IF ~p.table
    THEN [undefined |-> TRUE, titles |-> <<>>]
    ELSE [undefined |-> FALSE, titles |-> CollectTitles(p.paragraphs)]

\* onStreamButtonClick(): reading songs.length of undefined throws, which
\* rejects the promise of the async handler
OnStreamButtonClick(p) ==
    LET songs == GetSongTitles(p)
    IN  IF songs.undefined
        THEN [settled |-> "rejected", found |-> 0]
        ELSE [settled |-> "resolved", found |-> Len(songs.titles)]

(***************************************************************************)
(* The state.                                                              *)
(***************************************************************************)
VARIABLES
    storage,       \* SettingsStorage: key -> undefined or the saved value
    now,           \* Date.now()
    initialized,   \* AuthService.initialized
    loginPc,       \* a direct login() call: "idle", or "popup" while it awaits the token
    loginResult,   \* how the last direct login() settled: "none", "pending", "resolved", "rejected"
    reqPc,         \* executeRequest: "idle", "fetching", "popup", "delay", "done"
    reqCall,       \* the endpoint and options of the running executeRequest
    reqResult,     \* its promise: "pending", "value", "undefined", "rejected"
    timerStart,    \* when delay(RETRY_DELAY_MS) was started
    sent,          \* the requests the running executeRequest has put on the wire
    log,           \* history: the events of the running executeRequest, in order
    lastFetch,     \* history: the direct fetchClientId() call of the step just taken
    loginBefore,   \* history: while a direct login() is in its popup, the storage without its writes
    loginFailure,  \* history: the direct login() that failed in the step just taken
    tokenReset,    \* history: TokenService.reset() ran and saveAuthToken has not since
    promptedId,    \* history: the id the prompt stored, until ClientIdService.reset()
    tokenData,     \* the token response handed to AuthToken.deserialize
    tokenResult,   \* what deserialize did with it
    page,          \* the document the DOM service reads
    songs,         \* what the last getSongTitles() returned
    click,         \* how the last onStreamButtonClick() settled
    stream,        \* the YouTubeStream object in use
    visibilitySet, \* history: setVisibility was called on it
    upload,        \* the last uploadStream(stream): whether it threw, and the data it posted
    gsiScripts,    \* the GSI script elements in document.head: "loading" or "loaded"
    initCalls,     \* the init() calls made: the script each awaits, and whether it has resolved
    injectedSinceReset  \* history: scripts injected since the last AuthService.reset()

authVars ==
    <<storage, now, initialized, loginPc, loginResult, lastFetch, loginBefore,
      loginFailure, tokenReset, promptedId>>

reqVars == <<reqPc, reqCall, reqResult, timerStart, sent, log>>

\* the clock values the model visits: around every whole second
Times == {t \in 0..MaxTime : (t % MS_PER_SECOND) \in {0, 1, MS_PER_SECOND - 1}}

\* the token responses the popup hands to the callback
PopupResponses ==
    {NullResponse,
     [isNull |-> FALSE, access_token |-> Some("tokA"), expires_in |-> Some(1),
      token_type |-> Some("Bearer")],
     [isNull |-> FALSE, access_token |-> Some("tokB"), expires_in |-> Some(2),
      token_type |-> Some("Bearer")],
     [isNull |-> FALSE, access_token |-> Some("tokA"), expires_in |-> Some(1),
      token_type |-> Some("bearer")],
     [isNull |-> FALSE, access_token |-> Some(""), expires_in |-> Some(0),
      token_type |-> Some("Bearer")]}

NoCall == [endpoint |-> "", options |-> [method |-> "", body |-> "", headers |-> "none"]]

NoFetch ==
    [called |-> FALSE, stored |-> Undefined, input |-> Undefined, threw |-> FALSE,
     clientId |-> Undefined, prompts |-> 0, storedAfter |-> Undefined]

NoFailure == [why |-> "", hadClientId |-> FALSE, changed |-> {}]

\* the record of one fetchClientId() call on storage st
FetchRecord(st, input) ==
    LET c == FetchClientId(st, input)
    IN  [called |-> TRUE, stored |-> st[CLIENT_ID_KEY],
         input |-> IF c.prompts = 0 THEN Undefined ELSE input,
         threw |-> c.threw, clientId |-> c.clientId, prompts |-> c.prompts,
         storedAfter |-> c.storage[CLIENT_ID_KEY]]

\* loginBefore after a step, not of the direct login(), that writes what
\* Write writes: the baseline takes the same writes
Baseline(Write(_)) ==
    IF loginPc = "popup" THEN Write(loginBefore) ELSE loginBefore

ChangedKeys(before, after) == {k \in Keys : after[k] # before[k]}

AuthInit ==
    /\ storage = EmptyStorage
    /\ now = 0
    /\ initialized = FALSE
    /\ loginPc = "idle"
    /\ loginResult = "none"
    /\ lastFetch = NoFetch
    /\ loginBefore = EmptyStorage
    /\ loginFailure = NoFailure
    /\ tokenReset = FALSE
    /\ promptedId = Undefined

RequestInit ==
    /\ reqPc = "idle"
    /\ reqCall = NoCall
    /\ reqResult = "pending"
    /\ timerStart = 0
    /\ sent = <<>>
    /\ log = <<>>

(***************************************************************************)
(* The operations of the auth service and its two helpers.                 *)
(***************************************************************************)
\* time passes
Tick ==
    /\ \E t \in Times : t > now /\ now' = t
    /\ lastFetch' = NoFetch
    /\ loginFailure' = NoFailure
    /\ UNCHANGED <<storage, initialized, loginPc, loginResult, loginBefore,
                   tokenReset, promptedId>>

\* AuthService.login(), called directly, up to its await
Login ==
    /\ loginPc = "idle"
    /\ \E input \in PromptInputs :
          LET r == LoginSync(storage, now, input)
              f == FetchRecord(storage, input)
              ran == r.why # "already"
          IN  /\ storage' = r.storage
              /\ loginPc' = IF r.outcome = "popup" THEN "popup" ELSE "idle"
              /\ loginResult' = IF r.outcome = "popup" THEN "pending" ELSE r.outcome
              /\ lastFetch' = NoFetch
              /\ promptedId' =
                    IF ran /\ f.prompts > 0 /\ ~f.threw THEN input ELSE promptedId
              /\ loginBefore' = IF r.outcome = "popup" THEN storage ELSE EmptyStorage
              /\ loginFailure' =
                    IF r.outcome = "rejected"
                    THEN [why |-> r.why,
                          hadClientId |-> TruthyString(storage[CLIENT_ID_KEY]),
                          changed |-> ChangedKeys(storage, r.storage)]
                    ELSE NoFailure
    /\ UNCHANGED <<now, initialized, tokenReset>>

\* the popup of a direct login() calls back
LoginPopupCallback ==
    /\ loginPc = "popup"
    /\ \E data \in PopupResponses :
          LET r == LoginCallback(storage, now, data)
          IN  /\ storage' = r.storage
              /\ loginResult' = r.outcome
              /\ loginFailure' =
                    IF r.outcome = "rejected"
                    THEN [why |-> r.why,
                          hadClientId |-> TruthyString(loginBefore[CLIENT_ID_KEY]),
                          changed |-> ChangedKeys(loginBefore, r.storage)]
                    ELSE NoFailure
              /\ tokenReset' = IF r.outcome = "resolved" THEN FALSE ELSE tokenReset
    /\ loginPc' = "idle"
    /\ loginBefore' = EmptyStorage
    /\ lastFetch' = NoFetch
    /\ UNCHANGED <<now, initialized, promptedId>>

\* AuthService.logout(): TokenService.reset()
Logout ==
    /\ storage' = TokenServiceReset(storage)
    /\ loginBefore' = Baseline(LAMBDA s : TokenServiceReset(s))
    /\ tokenReset' = TRUE
    /\ lastFetch' = NoFetch
    /\ loginFailure' = NoFailure
    /\ UNCHANGED <<now, initialized, loginPc, loginResult, promptedId>>

\* AuthService.reset()
AuthReset ==
    /\ storage' = ClientIdServiceReset(TokenServiceReset(storage))
    /\ loginBefore' = Baseline(LAMBDA s : ClientIdServiceReset(TokenServiceReset(s)))
    /\ initialized' = FALSE
    /\ tokenReset' = TRUE
    /\ promptedId' = Undefined
    /\ lastFetch' = NoFetch
    /\ loginFailure' = NoFailure
    /\ UNCHANGED <<now, loginPc, loginResult>>

\* TokenService.saveAuthToken(authToken), called directly with a token
\* that AuthToken.deserialize returned
SaveAuthTokenCall ==
    /\ \E data \in PopupResponses :
          LET d == Deserialize(data)
          IN  /\ ~d.threw
              /\ storage' = SaveAuthToken(storage, d.token, now)
              /\ loginBefore' = Baseline(LAMBDA s : SaveAuthToken(s, d.token, now))
    /\ tokenReset' = FALSE
    /\ lastFetch' = NoFetch
    /\ loginFailure' = NoFailure
    /\ UNCHANGED <<now, initialized, loginPc, loginResult, promptedId>>

\* ClientIdService.fetchClientId(), called directly
FetchClientIdCall ==
    /\ \E input \in PromptInputs :
          LET c == FetchClientId(storage, input)
              f == FetchRecord(storage, input)
          IN  /\ storage' = c.storage
              /\ lastFetch' = f
              /\ promptedId' = IF f.prompts > 0 /\ ~f.threw THEN input ELSE promptedId
              /\ loginBefore' =
                    Baseline(LAMBDA s :
                        IF c.storage[CLIENT_ID_KEY] # storage[CLIENT_ID_KEY]
                        THEN [s EXCEPT ![CLIENT_ID_KEY] = c.storage[CLIENT_ID_KEY]]
                        ELSE s)
    /\ loginFailure' = NoFailure
    /\ UNCHANGED <<now, initialized, loginPc, loginResult, tokenReset>>

(***************************************************************************)
(* The operations of YouTubeApiService.executeRequest.                     *)
(***************************************************************************)
\* the calls the stream service makes: dummyApiRequest and uploadStream
RequestCalls ==
    {[endpoint |-> DUMMY_ENDPOINT,
      options |-> [method |-> "GET", body |-> "", headers |-> "none"]],
     [endpoint |-> CREATE_STREAM_ENDPOINT,
      options |-> [method |-> "POST", body |-> "broadcast", headers |-> "callerHeaders"]]}

\* the request ends: its promise settles
Finish(outcome, events) ==
    /\ reqPc' = "done"
    /\ reqResult' = ExecuteRequestSettle(outcome)
    /\ log' = log \o events
    /\ UNCHANGED <<reqCall, timerStart, sent>>

\* what the login() inside handleResponse does to the auth state
RequestLoginWrites(st) ==
    /\ storage' = st
    /\ promptedId' =
          IF st[CLIENT_ID_KEY] # storage[CLIENT_ID_KEY]
          THEN st[CLIENT_ID_KEY] ELSE promptedId
    /\ loginBefore' =
          Baseline(LAMBDA s : [k \in Keys |-> IF st[k] # storage[k] THEN st[k] ELSE s[k]])
    /\ tokenReset' =
          IF st[ACCESS_TOKEN_KEY] # storage[ACCESS_TOKEN_KEY] THEN FALSE ELSE tokenReset
    /\ lastFetch' = NoFetch
    /\ loginFailure' = NoFailure
    /\ UNCHANGED <<now, initialized, loginPc, loginResult>>

\* a step of executeRequest that leaves the auth state alone
AuthUntouched ==
    /\ lastFetch' = NoFetch
    /\ loginFailure' = NoFailure
    /\ UNCHANGED <<storage, now, initialized, loginPc, loginResult, loginBefore,
                   tokenReset, promptedId>>

\* YouTubeApiService.executeRequest(endpoint, options), up to the await of fetch
ExecuteRequest ==
    /\ reqPc \in {"idle", "done"}
    /\ \E call \in RequestCalls :
          /\ reqCall' = [endpoint |-> call.endpoint, options |-> WithHeaders(call.options)]
          /\ sent' = <<BuildRequest(call.endpoint, call.options, storage)>>
    /\ log' = <<"send">>
    /\ reqPc' = "fetching"
    /\ reqResult' = "pending"
    /\ timerStart' = 0
    /\ AuthUntouched

\* fetch rejects: the catch of executeRequest
FetchRejects ==
    /\ reqPc = "fetching"
    /\ Finish("throw", <<"fetch_rejected">>)
    /\ AuthUntouched

\* fetch resolves with an OK response: handleResponse returns res.json()
ResponseOk ==
    /\ reqPc = "fetching"
    /\ \E o \in FetchOutcomes :
          /\ ~o.rejected /\ IsOk(o.status)
          /\ IF o.json
             THEN Finish("value", <<"ok">>)
             ELSE Finish("throw", <<"ok", "bad_json">>)
    /\ AuthUntouched

\* fetch resolves with a status that is neither OK nor 401/403
ResponseNotOk ==
    /\ reqPc = "fetching"
    /\ \E o \in FetchOutcomes :
          /\ ~o.rejected /\ ~IsOk(o.status) /\ ~IsUnauthorized(o.status)
    /\ Finish("throw", <<"not_ok">>)
    /\ AuthUntouched

\* fetch resolves with 401 or 403: handleResponse calls login()
ResponseUnauthorized ==
    /\ reqPc = "fetching"
    /\ \E o \in FetchOutcomes, input \in PromptInputs :
          /\ ~o.rejected /\ ~IsOk(o.status) /\ IsUnauthorized(o.status)
          /\ LET r == LoginSync(storage, now, input)
             IN  /\ RequestLoginWrites(r.storage)
                 /\ CASE r.outcome = "resolved" ->
                            /\ reqPc' = "delay"
                            /\ timerStart' = now
                            /\ log' = log \o <<"unauthorized", "login_skipped">>
                            /\ UNCHANGED <<reqCall, reqResult, sent>>
                      [] r.outcome = "popup" ->
                            /\ reqPc' = "popup"
                            /\ log' = log \o <<"unauthorized", "popup">>
                            /\ UNCHANGED <<reqCall, reqResult, sent, timerStart>>
                      [] OTHER ->
                            Finish("throw", <<"unauthorized", "login_rejected">>)

\* the popup opened by the request's login() calls back
RequestPopupCallback ==
    /\ reqPc = "popup"
    /\ \E data \in PopupResponses :
          LET r == LoginCallback(storage, now, data)
          IN  /\ RequestLoginWrites(r.storage)
              /\ IF r.outcome = "resolved"
                 THEN /\ reqPc' = "delay"
                      /\ timerStart' = now
                      /\ log' = Append(log, "login_resolved")
                      /\ UNCHANGED <<reqCall, reqResult, sent>>
                 ELSE Finish("throw", <<"login_rejected">>)

\* the delay is over: handleResponse calls executeRequest again
Retry ==
    /\ reqPc = "delay"
    /\ TimerDue(timerStart, now)
    /\ Len(sent) < MaxRequests
    /\ LET call == RetryCall(reqCall.endpoint, reqCall.options)
       IN  /\ reqCall' = [endpoint |-> call.endpoint,
                          options |-> WithHeaders(call.options)]
           /\ sent' = Append(sent, BuildRequest(call.endpoint, call.options, storage))
    /\ log' = log \o <<"timer", "send">>
    /\ reqPc' = "fetching"
    /\ UNCHANGED <<reqResult, timerStart>>
    /\ AuthUntouched

(***************************************************************************)
(* AuthToken.deserialize and the DOM service, each on an input of its own. *)
(***************************************************************************)
tokenVars == <<tokenData, tokenResult>>

domVars == <<page, songs, click>>

NoResult == [called |-> FALSE, threw |-> FALSE, token |-> NoAuthToken]

NoSongs == [called |-> FALSE, undefined |-> FALSE, titles |-> <<>>]

NoClick == [settled |-> "none", found |-> 0]

TokenIdle == tokenData = NullResponse /\ tokenResult = NoResult

DomIdle ==
    /\ page = [table |-> FALSE, paragraphs |-> <<>>]
    /\ songs = NoSongs
    /\ click = NoClick

\* the identity SDK answers with some token response
TokenResponseArrives ==
    /\ \E data \in TokenResponses : tokenData' = data
    /\ tokenResult' = NoResult

\* AuthToken.deserialize(tokenData)
DeserializeCall ==
    /\ ~tokenResult.called
    /\ LET d == Deserialize(tokenData)
       IN  tokenResult' = [called |-> TRUE, threw |-> d.threw, token |-> d.token]
    /\ UNCHANGED tokenData

\* the user opens another plan page
PageLoads ==
    /\ \E p \in Pages : page' = p
    /\ songs' = NoSongs
    /\ click' = NoClick

\* DomService.getSongTitles()
GetSongTitlesCall ==
    /\ LET r == GetSongTitles(page)
       IN  songs' = [called |-> TRUE, undefined |-> r.undefined, titles |-> r.titles]
    /\ UNCHANGED <<page, click>>

\* a click on the stream button
StreamButtonClick ==
    /\ click' = OnStreamButtonClick(page)
    /\ UNCHANGED <<page, songs>>

(***************************************************************************)
(* YouTubeStream and YouTubeStreamService.uploadStream.  A Date is its     *)
(* time value in seconds, or <<>> for an invalid Date.                     *)
(***************************************************************************)
PUBLIC_STREAM_VISIBILITY == "public"

UNLISTED_STREAM_VISIBILITY == "unlisted"

PRIVATE_STREAM_VISIBILITY == "private"

StreamTitles == {"Worship Night", "Test Stream"}

StreamDescriptions == {Undefined, Some("Sunday service")}

StartTimes == {Undefined, Some(0), Some(1735689600)}

\* what callers may hand to setVisibility: the setter takes any string
VisibilityInputs == {"public", "unlisted", "private", "hidden", ""}

streamVars == <<stream, visibilitySet, upload>>

NoStream ==
    [created |-> FALSE, title |-> "", description |-> Undefined,
     startTime |-> Undefined, visibility |-> ""]

NoData ==
    [snippet |-> [title |-> "", description |-> Undefined, scheduledStartTime |-> ""],
     status |-> [privacyStatus |-> ""]]

NoUpload == [state |-> "none", data |-> NoData]

StreamIdle == stream = NoStream /\ visibilitySet = FALSE /\ upload = NoUpload

\* new YouTubeStream(title, startTime)
NewYouTubeStream(title, startTime) ==
    [created |-> TRUE, title |-> title, description |-> Undefined,
     startTime |-> startTime, visibility |-> PRIVATE_STREAM_VISIBILITY]

\* Date.toISOString(); it throws a RangeError on an invalid Date
ToISOString(date) ==
    CASE date = Some(0) -> "1970-01-01T00:00:00.000Z"
      [] date = Some(1735689600) -> "2025-01-01T00:00:00.000Z"
      [] OTHER -> "RangeError"

\* the data object uploadStream serializes into the request body; a
\* description of <<>> is a key JSON.stringify leaves out
UploadData(st) ==
    [snippet |-> [title |-> st.title, description |-> st.description,
                  scheduledStartTime |-> ToISOString(st.startTime)],
     status |-> [privacyStatus |-> st.visibility]]

NewStream ==
    /\ \E title \in StreamTitles, startTime \in StartTimes :
          stream' = NewYouTubeStream(title, startTime)
    /\ visibilitySet' = FALSE
    /\ UNCHANGED upload

SetTitle ==
    /\ stream.created
    /\ \E title \in StreamTitles : stream' = [stream EXCEPT !.title = title]
    /\ UNCHANGED <<visibilitySet, upload>>

SetDescription ==
    /\ stream.created
    /\ \E description \in StreamDescriptions \ {Undefined} :
          stream' = [stream EXCEPT !.description = description]
    /\ UNCHANGED <<visibilitySet, upload>>

SetStartTime ==
    /\ stream.created
    /\ \E startTime \in StartTimes : stream' = [stream EXCEPT !.startTime = startTime]
    /\ UNCHANGED <<visibilitySet, upload>>

SetVisibility ==
    /\ stream.created
    /\ \E visibility \in VisibilityInputs :
          stream' = [stream EXCEPT !.visibility = visibility]
    /\ visibilitySet' = TRUE
    /\ UNCHANGED upload

\* YouTubeStreamService.uploadStream(stream): toISOString throws on an
\* invalid start time; otherwise the data is posted with executeRequest
UploadStream ==
    /\ stream.created
    /\ reqPc \in {"idle", "done"}
    /\ IF stream.startTime = Undefined
       THEN /\ upload' = [state |-> "threw", data |-> NoData]
            /\ UNCHANGED <<reqVars, authVars>>
       ELSE /\ upload' = [state |-> "sent", data |-> UploadData(stream)]
            /\ LET options == [method |-> "POST", body |-> "broadcast",
                               headers |-> "callerHeaders"]
               IN  /\ reqCall' = [endpoint |-> CREATE_STREAM_ENDPOINT,
                                  options |-> WithHeaders(options)]
                   /\ sent' = <<BuildRequest(CREATE_STREAM_ENDPOINT, options, storage)>>
            /\ log' = <<"send">>
            /\ reqPc' = "fetching"
            /\ reqResult' = "pending"
            /\ timerStart' = 0
            /\ AuthUntouched
    /\ UNCHANGED <<stream, visibilitySet>>

(***************************************************************************)
(* AuthService.init() and injectGSIScript().                               *)
(***************************************************************************)
scriptVars == <<gsiScripts, initCalls, injectedSinceReset>>

ScriptIdle == gsiScripts = <<>> /\ initCalls = <<>> /\ injectedSinceReset = 0

\* the script the page would use: the one appended last, if any has loaded
GsiLoaded(scripts) == scripts # <<>> /\ scripts[Len(scripts)] = "loaded"

\* init() up to its await: with the flag set it returns at once, and its
\* promise resolves; otherwise it sets the flag, appends a script element
\* and awaits that element's load event
InitSync(flag, scripts) ==
    IF flag
    THEN [initialized |-> TRUE, scripts |-> scripts,
          call |-> [state |-> "resolved", script |-> 0,
                    loadedAtResolve |-> GsiLoaded(scripts)]]
    ELSE [initialized |-> TRUE, scripts |-> Append(scripts, "loading"),
          call |-> [state |-> "awaiting", script |-> Len(scripts) + 1,
                    loadedAtResolve |-> FALSE]]

\* AuthService.init()
AuthServiceInit ==
    /\ Len(initCalls) < MaxInitCalls
    /\ LET r == InitSync(initialized, gsiScripts)
       IN  /\ Len(r.scripts) <= MaxScripts
           /\ initialized' = r.initialized
           /\ gsiScripts' = r.scripts
           /\ initCalls' = Append(initCalls, r.call)
           /\ injectedSinceReset' =
                 injectedSinceReset + (Len(r.scripts) - Len(gsiScripts))
    /\ lastFetch' = NoFetch
    /\ loginFailure' = NoFailure
    /\ UNCHANGED <<storage, now, loginPc, loginResult, loginBefore, tokenReset,
                   promptedId>>

\* a script element fires its load event: the init() awaiting it resolves
ScriptLoads ==
    /\ \E k \in 1..Len(gsiScripts) :
          /\ gsiScripts[k] = "loading"
          /\ gsiScripts' = [gsiScripts EXCEPT ![k] = "loaded"]
          /\ initCalls' =
                [i \in 1..Len(initCalls) |->
                    IF initCalls[i].state = "awaiting" /\ initCalls[i].script = k
                    THEN [initCalls[i] EXCEPT !.state = "resolved",
                                              !.loadedAtResolve = TRUE]
                    ELSE initCalls[i]]
    /\ UNCHANGED injectedSinceReset

vars == <<authVars, reqVars, tokenVars, domVars, streamVars, scriptVars>>

(***************************************************************************)
(* The specifications.  Spec follows one executeRequest call after         *)
(* another, with the login() each may make, while time passes and the      *)
(* token or everything is reset.  SpecAuth follows the direct calls of the *)
(* auth service and of the client-id service.  SpecToken applies           *)
(* AuthToken.deserialize to token responses, SpecDom the DOM service to    *)
(* pages.                                                                  *)
(***************************************************************************)
Init == AuthInit /\ RequestInit /\ TokenIdle /\ DomIdle /\ StreamIdle /\ ScriptIdle

Next ==
    \/ Tick /\ UNCHANGED <<reqVars, tokenVars, domVars, streamVars, scriptVars>>
    \/ Logout /\ UNCHANGED <<reqVars, tokenVars, domVars, streamVars, scriptVars>>
    \/ AuthReset /\ UNCHANGED <<reqVars, tokenVars, domVars, streamVars, scriptVars>>
    \/ ExecuteRequest /\ UNCHANGED <<tokenVars, domVars, streamVars, scriptVars>>
    \/ FetchRejects /\ UNCHANGED <<tokenVars, domVars, streamVars, scriptVars>>
    \/ ResponseOk /\ UNCHANGED <<tokenVars, domVars, streamVars, scriptVars>>
    \/ ResponseNotOk /\ UNCHANGED <<tokenVars, domVars, streamVars, scriptVars>>
    \/ ResponseUnauthorized /\ UNCHANGED <<tokenVars, domVars, streamVars, scriptVars>>
    \/ RequestPopupCallback /\ UNCHANGED <<tokenVars, domVars, streamVars, scriptVars>>
    \/ Retry /\ UNCHANGED <<tokenVars, domVars, streamVars, scriptVars>>

Spec == Init /\ [][Next]_vars

NextAuth ==
    \/ Tick /\ UNCHANGED <<reqVars, tokenVars, domVars, streamVars, scriptVars>>
    \/ Login /\ UNCHANGED <<reqVars, tokenVars, domVars, streamVars, scriptVars>>
    \/ LoginPopupCallback /\ UNCHANGED <<reqVars, tokenVars, domVars, streamVars, scriptVars>>
    \/ Logout /\ UNCHANGED <<reqVars, tokenVars, domVars, streamVars, scriptVars>>
    \/ AuthReset /\ UNCHANGED <<reqVars, tokenVars, domVars, streamVars, scriptVars>>
    \/ FetchClientIdCall /\ UNCHANGED <<reqVars, tokenVars, domVars, streamVars, scriptVars>>
    \/ SaveAuthTokenCall /\ UNCHANGED <<reqVars, tokenVars, domVars, streamVars, scriptVars>>

SpecAuth == Init /\ [][NextAuth]_vars

NextToken ==
    \/ TokenResponseArrives /\ UNCHANGED <<authVars, reqVars, domVars, streamVars, scriptVars>>
    \/ DeserializeCall /\ UNCHANGED <<authVars, reqVars, domVars, streamVars, scriptVars>>

SpecToken == Init /\ [][NextToken]_vars

NextDom ==
    \/ PageLoads /\ UNCHANGED <<authVars, reqVars, tokenVars, streamVars, scriptVars>>
    \/ GetSongTitlesCall /\ UNCHANGED <<authVars, reqVars, tokenVars, streamVars, scriptVars>>
    \/ StreamButtonClick /\ UNCHANGED <<authVars, reqVars, tokenVars, streamVars, scriptVars>>

SpecDom == Init /\ [][NextDom]_vars

NextStream ==
    \/ NewStream /\ UNCHANGED <<authVars, reqVars, tokenVars, domVars, scriptVars>>
    \/ SetTitle /\ UNCHANGED <<authVars, reqVars, tokenVars, domVars, scriptVars>>
    \/ SetDescription /\ UNCHANGED <<authVars, reqVars, tokenVars, domVars, scriptVars>>
    \/ SetStartTime /\ UNCHANGED <<authVars, reqVars, tokenVars, domVars, scriptVars>>
    \/ SetVisibility /\ UNCHANGED <<authVars, reqVars, tokenVars, domVars, scriptVars>>
    \/ UploadStream /\ UNCHANGED <<tokenVars, domVars, scriptVars>>
    \/ FetchRejects /\ UNCHANGED <<tokenVars, domVars, streamVars, scriptVars>>
    \/ ResponseOk /\ UNCHANGED <<tokenVars, domVars, streamVars, scriptVars>>
    \/ ResponseNotOk /\ UNCHANGED <<tokenVars, domVars, streamVars, scriptVars>>

SpecStream == Init /\ [][NextStream]_vars

NextInit ==
    \/ AuthServiceInit /\ UNCHANGED <<reqVars, tokenVars, domVars, streamVars>>
    \/ ScriptLoads /\ UNCHANGED <<authVars, reqVars, tokenVars, domVars, streamVars>>
    \/ /\ AuthReset
       /\ injectedSinceReset' = 0
       /\ UNCHANGED <<gsiScripts, initCalls, reqVars, tokenVars, domVars, streamVars>>

SpecInit == Init /\ [][NextInit]_vars

(***************************************************************************)
(* The properties.                                                         *)
(***************************************************************************)
LastEvent == log[Len(log)]

\* C1: one executeRequest call sends at most two requests: the original
\* and, after a 401/403, one resend; a failing resend ends the call.
C1_AtMostTwoRequests == Len(sent) <= 2

\* C2 as stated: isUserAuthenticated() is truthy exactly when an access
\* token is stored and the clock is strictly before the stored expiry.
C2_AuthenticatedIffBeforeExpiry ==
    IsUserAuthenticated(storage, now) <=>
        /\ storage[ACCESS_TOKEN_KEY] # Undefined
        /\ storage[EXPIRATION_TIMESTAMP_KEY] # Undefined
        /\ now < storage[EXPIRATION_TIMESTAMP_KEY][1]

\* C2 as amended: at every clock value, isUserAuthenticated() is truthy
\* exactly when an access token is stored and the clock is not past the
\* stored expiry; at the expiry instant itself it is still truthy.
C2_AuthenticatedIffNotPastExpiry ==
    \A t \in Times \cup {now} :
        IsUserAuthenticated(storage, t) <=>
            /\ storage[ACCESS_TOKEN_KEY] # Undefined
            /\ storage[EXPIRATION_TIMESTAMP_KEY] # Undefined
            /\ t <= storage[EXPIRATION_TIMESTAMP_KEY][1]

C2_AtExpiryInstant ==
    /\ storage[ACCESS_TOKEN_KEY] # Undefined
    /\ storage[EXPIRATION_TIMESTAMP_KEY] # Undefined
    /\ now = storage[EXPIRATION_TIMESTAMP_KEY][1]

\* C3: from TokenService.reset() (logout, AuthService.reset) until the
\* next saveAuthToken, isUserAuthenticated() is false at every clock value.
C3_NotAuthenticatedAfterReset ==
    tokenReset => \A t \in Times \cup {now} : ~IsUserAuthenticated(storage, t)

C3_ResetAfterLogin ==
    /\ tokenReset
    /\ loginResult = "resolved"
    /\ storage[CLIENT_ID_KEY] # Undefined

\* C4: deserialize throws for a missing response, a missing or empty
\* access_token, a token_type other than "Bearer", and a missing, zero or
\* negative expires_in; for any other response it returns an AuthToken
\* carrying the response's three values.
C4_DeserializeValidates ==
    tokenResult.called =>
        LET malformed ==
                \/ tokenData.isNull
                \/ tokenData.access_token \in {Undefined, Some("")}
                \/ tokenData.token_type # Some("Bearer")
                \/ tokenData.expires_in = Undefined
                \/ tokenData.expires_in[1] <= 0
        IN  IF malformed
            THEN tokenResult.threw
            ELSE /\ ~tokenResult.threw
                 /\ Some(tokenResult.token.accessToken) = tokenData.access_token
                 /\ Some(tokenResult.token.expiresIn) = tokenData.expires_in
                 /\ Some(tokenResult.token.tokenType) = tokenData.token_type

C4_ValidTokenDeserialized ==
    /\ tokenResult.called
    /\ ~tokenResult.threw
    /\ tokenResult.token.accessToken = "tokB"

\* C5 as stated: a login() that fails, for a malformed token response or
\* for a missing client id, leaves ACCESS_TOKEN, EXPIRY_TIME and CLIENT_ID
\* as they were.
C5_FailedLoginChangesNothing ==
    loginFailure.why # "" => loginFailure.changed = {}

\* C5 as amended: a failed login() leaves ACCESS_TOKEN and EXPIRY_TIME as
\* they were; CLIENT_ID too when no client id was given or when one was
\* stored already; a login() that fails on a malformed token response
\* after prompting keeps the id entered at the prompt.
C5_FailedLoginKeepsToken ==
    loginFailure.why # "" =>
        /\ loginFailure.why \in {"noClientId", "malformed"}
        /\ loginFailure.changed \subseteq {CLIENT_ID_KEY}
        /\ loginFailure.why = "noClientId" => loginFailure.changed = {}
        /\ loginFailure.hadClientId => loginFailure.changed = {}
        /\ loginFailure.changed = {CLIENT_ID_KEY} =>
              /\ TruthyString(storage[CLIENT_ID_KEY])
              /\ storage[CLIENT_ID_KEY] = promptedId

C5_MalformedAfterPrompt ==
    /\ loginFailure.why = "malformed"
    /\ loginFailure.changed = {CLIENT_ID_KEY}

\* C6: the promise of executeRequest never rejects; when the fetch
\* rejects, the status is neither OK nor 401/403, the re-login fails or
\* the body does not parse, it resolves without a value.
FailureEvents == {"fetch_rejected", "not_ok", "login_rejected", "bad_json"}

C6_FailuresSwallowed ==
    /\ reqResult # "rejected"
    /\ (reqPc = "done" /\ LastEvent \in FailureEvents) => reqResult = "undefined"
    /\ (Len(log) > 0 /\ LastEvent \in FailureEvents) => reqPc = "done"

C6_ReloginFailed ==
    /\ reqPc = "done"
    /\ LastEvent = "login_rejected"
    /\ Len(sent) >= 2

\* C7: a resend happens only from the delay that follows a completed
\* login() after a 401/403, not before RETRY_DELAY_MS has passed since the
\* delay began, and with the endpoint, method, body and headers object of
\* the original request.
C7_ResendAfterLoginAndDelay ==
    [][(Len(sent) >= 1 /\ Len(sent') > Len(sent)) =>
          /\ reqPc = "delay"
          /\ LastEvent \in {"login_skipped", "login_resolved"}
          /\ \E i \in 1..Len(log) :
                /\ log[i] = "unauthorized"
                /\ \A k \in i..Len(log) : log[k] # "send"
          /\ now >= timerStart + RETRY_DELAY_MS
          /\ Len(sent') = Len(sent) + 1
          /\ LET first == sent[1]
                 again == sent'[Len(sent')]
             IN  /\ again.endpoint = first.endpoint
                 /\ again.method = first.method
                 /\ again.body = first.body
                 /\ again.headers = first.headers
      ]_vars

C7_Resent ==
    /\ Len(sent) >= 2
    /\ sent[2].method = "POST"
    /\ sent[2].authorization # sent[1].authorization

\* C8: every resend is preceded, since the request before it, by the
\* popup token flow.
C8_PopupBeforeEveryResend ==
    \A i \in 2..Len(log) :
        log[i] = "send" =>
            \E j \in 1..(i - 1) :
                /\ log[j] = "popup"
                /\ \A k \in j..(i - 1) : log[k] # "send"

\* C9: fetchClientId prompts exactly when no client id is stored, and at
\* most once; a cancelled or empty answer makes it throw and store
\* nothing; any other answer is stored and returned; and while an id
\* stored by the prompt has not been reset, every fetchClientId returns it
\* without a prompt.
C9_ClientIdPrompt ==
    /\ lastFetch.called =>
          /\ lastFetch.prompts = (IF lastFetch.stored = Undefined THEN 1 ELSE 0)
          /\ storage[CLIENT_ID_KEY] = lastFetch.storedAfter
          /\ IF lastFetch.prompts = 0
             THEN /\ ~lastFetch.threw
                  /\ lastFetch.clientId = lastFetch.stored
                  /\ lastFetch.storedAfter = lastFetch.stored
             ELSE IF lastFetch.input \in {Undefined, Some("")}
                  THEN /\ lastFetch.threw
                       /\ lastFetch.storedAfter = Undefined
                  ELSE /\ ~lastFetch.threw
                       /\ lastFetch.clientId = lastFetch.input
                       /\ lastFetch.storedAfter = lastFetch.input
    /\ promptedId # Undefined =>
          \A input \in PromptInputs :
              LET c == FetchClientId(storage, input)
              IN  /\ ~c.threw
                  /\ c.prompts = 0
                  /\ c.clientId = promptedId
                  /\ c.storage = storage

C9_ReturnedWithoutPrompt ==
    /\ lastFetch.called
    /\ lastFetch.prompts = 0
    /\ lastFetch.clientId = promptedId

\* C10: without the order-of-service container, getSongTitles returns an
\* empty list and the click handler completes without throwing.
C10_NoContainerEmptyList ==
    /\ (songs.called /\ ~page.table) => (~songs.undefined /\ songs.titles = <<>>)
    /\ (click.settled # "none" /\ ~page.table) => click.settled = "resolved"

\* C12: after every operation, ACCESS_TOKEN and EXPIRY_TIME are stored
\* together or not at all.
C12_TokenAndExpiryTogether ==
    (storage[ACCESS_TOKEN_KEY] = Undefined) <=>
        (storage[EXPIRATION_TIMESTAMP_KEY] = Undefined)

C12_BothStored ==
    /\ storage[ACCESS_TOKEN_KEY] = Some("tokB")
    /\ storage[EXPIRATION_TIMESTAMP_KEY] # Undefined
    /\ loginResult = "rejected"

\* C11: a YouTubeStream's visibility is public, unlisted or private,
\* it is private while setVisibility has not been called, and the
\* privacyStatus uploadStream posts is one of the three as well.
C11_VisibilityIsOneOfThree ==
    LET Allowed == {PUBLIC_STREAM_VISIBILITY, UNLISTED_STREAM_VISIBILITY,
                    PRIVATE_STREAM_VISIBILITY}
    IN  /\ stream.created => stream.visibility \in Allowed
        /\ (stream.created /\ ~visibilitySet) =>
              stream.visibility = PRIVATE_STREAM_VISIBILITY
        /\ upload.state = "sent" => upload.data.status.privacyStatus \in Allowed

\* C13: between two resets at most one GSI script is injected, and every
\* init() promise that has resolved did so with the injected script loaded.
C13_InitWaitsForScript ==
    /\ injectedSinceReset <= 1
    /\ \A i \in 1..Len(initCalls) :
          initCalls[i].state = "resolved" => initCalls[i].loadedAtResolve

====
